---- MODULE Spec2Model ----
(***************************************************************************)
(* Reader/writer admission control of Gaok1/threads.                       *)
(*                                                                         *)
(*   resource_box.rs : Resource (read_count, write_count behind an         *)
(*                     RwLock) and ResourceBox (a Vec of resources with    *)
(*                     index-checked try_set_* / remove_* methods)         *)
(*   threads.rs      : ThreadsVisualizer (a Vec of ThreadInfo) with        *)
(*                     set_thread_resource_state and                       *)
(*                     update_threads_randomly                             *)
(*                                                                         *)
(* Vectors are modelled as functions on 0..len-1, keeping the 0-based      *)
(* indices of the source.  Names, positions and sizes of resources and     *)
(* threads are display data and are left out.                              *)
(***************************************************************************)
EXTENDS Integers, Sequences, FiniteSets, TLC

\* ---------------------------------------------------------------- bounds
\* largest resources_len handed to ResourceBox::new
MaxResources == 2
\* largest num_threads handed to ThreadsVisualizer::new
MaxThreads == 2
\* direct callers of the pool stop acquiring reads at this read_count
MaxCount == 3

\* ------------------------------------------------------- types of the code
\* Option::None of resource_in_use / new_resource (Some(r) is r itself)
None == -1

Reading == "Reading"
Writing == "Writing"
Waiting == "Waiting"
Idle == "Idle"
ThreadState == {Reading, Writing, Waiting, Idle}

VARIABLES
    resources,        \* ResourceBox.resources: index -> ResourceInner counters
    poisoned,         \* indices whose RwLock is poisoned (write() returns Err)
    threads,          \* ThreadsVisualizer.threads: index -> ThreadInfo
    pc,               \* position of the driver: "main" or inside the for loop
    loop_i,           \* the loop variable i of update_threads_randomly
    draws,            \* the (new_state, new_res) drawn so far in this call
    entry_resources,  \* the counters when update_threads_randomly was entered
    last              \* the last completed call: arguments, result, pool calls

vars == <<resources, poisoned, threads, pc, loop_i, draws, entry_resources, last>>

\* ------------------------------------------------------------- Resource
ResourceInner == [read_count |-> 0, write_count |-> 0]

\* try_set_reading with the writer check left out
Resource_try_set_reading_NoWriterCheck(inner, lock_ok) ==
    IF lock_ok
    THEN [inner |-> [inner EXCEPT !.read_count = @ + 1], ret |-> TRUE]
    ELSE [inner |-> inner, ret |-> FALSE]

\* Resource::try_set_reading: fails under a writer or a poisoned lock
Resource_try_set_reading(inner, lock_ok) ==
    IF lock_ok
    THEN IF inner.write_count > 0
         THEN [inner |-> inner, ret |-> FALSE]
         ELSE [inner |-> [inner EXCEPT !.read_count = @ + 1], ret |-> TRUE]
    ELSE [inner |-> inner, ret |-> FALSE]

\* try_set_writing that checks for a writer only, not for readers
Resource_try_set_writing_IgnoreReaders(inner, lock_ok) ==
    IF lock_ok
    THEN IF inner.write_count > 0
         THEN [inner |-> inner, ret |-> FALSE]
         ELSE [inner |-> [inner EXCEPT !.write_count = @ + 1], ret |-> TRUE]
    ELSE [inner |-> inner, ret |-> FALSE]

\* try_set_writing that checks for readers only, not for a writer
Resource_try_set_writing_IgnoreWriter(inner, lock_ok) ==
    IF lock_ok
    THEN IF inner.read_count > 0
         THEN [inner |-> inner, ret |-> FALSE]
         ELSE [inner |-> [inner EXCEPT !.write_count = @ + 1], ret |-> TRUE]
    ELSE [inner |-> inner, ret |-> FALSE]

\* Resource::try_set_writing: fails under readers, a writer or a poisoned lock
Resource_try_set_writing(inner, lock_ok) ==
    IF lock_ok
    THEN IF inner.read_count > 0 \/ inner.write_count > 0
         THEN [inner |-> inner, ret |-> FALSE]
         ELSE [inner |-> [inner EXCEPT !.write_count = @ + 1], ret |-> TRUE]
    ELSE [inner |-> inner, ret |-> FALSE]

\* remove_reading without the read_count > 0 guard
Resource_remove_reading_Unguarded(inner, lock_ok) ==
    IF lock_ok
    THEN [inner EXCEPT !.read_count = @ - 1]
    ELSE inner

\* Resource::remove_reading
Resource_remove_reading(inner, lock_ok) ==
    IF lock_ok /\ inner.read_count > 0
    THEN [inner EXCEPT !.read_count = @ - 1]
    ELSE inner

\* remove_writing going on with the guard of a poisoned lock
Resource_remove_writing_IgnorePoison(inner, lock_ok) ==
    IF inner.write_count > 0
    THEN [inner EXCEPT !.write_count = @ - 1]
    ELSE inner

\* Resource::remove_writing
Resource_remove_writing(inner, lock_ok) ==
    IF lock_ok /\ inner.write_count > 0
    THEN [inner EXCEPT !.write_count = @ - 1]
    ELSE inner

\* ----------------------------------------------------------- ResourceBox
\* ResourceBox::new(pos, resources_len)
ResourceBox_new(resources_len) ==
    [idx \in 0..(resources_len - 1) |-> ResourceInner]

\* ResourceBox::try_set_reading reporting success when resources.get(idx)
\* finds nothing
ResourceBox_try_set_reading_MissingIsTrue(rs, psn, idx) ==
    IF idx \in DOMAIN rs
    THEN LET r == Resource_try_set_reading(rs[idx], idx \notin psn)
         IN  [resources |-> [rs EXCEPT ![idx] = r.inner], ret |-> r.ret]
    ELSE [resources |-> rs, ret |-> TRUE]

\* ResourceBox::try_set_reading(idx): resources.get(idx), else false
ResourceBox_try_set_reading(rs, psn, idx) ==
    IF idx \in DOMAIN rs
    THEN LET r == Resource_try_set_reading(rs[idx], idx \notin psn)
         IN  [resources |-> [rs EXCEPT ![idx] = r.inner], ret |-> r.ret]
    ELSE [resources |-> rs, ret |-> FALSE]

\* ResourceBox::try_set_writing forwarding to the resource's try_set_reading
ResourceBox_try_set_writing_CallsReading(rs, psn, idx) ==
    ResourceBox_try_set_reading(rs, psn, idx)

\* ResourceBox::try_set_writing(idx)
ResourceBox_try_set_writing(rs, psn, idx) ==
    IF idx \in DOMAIN rs
    THEN LET r == Resource_try_set_writing(rs[idx], idx \notin psn)
         IN  [resources |-> [rs EXCEPT ![idx] = r.inner], ret |-> r.ret]
    ELSE [resources |-> rs, ret |-> FALSE]

\* ResourceBox::remove_reading(idx)
ResourceBox_remove_reading(rs, psn, idx) ==
    IF idx \in DOMAIN rs
    THEN [rs EXCEPT ![idx] = Resource_remove_reading(rs[idx], idx \notin psn)]
    ELSE rs

\* ResourceBox::remove_writing(idx)
ResourceBox_remove_writing(rs, psn, idx) ==
    IF idx \in DOMAIN rs
    THEN [rs EXCEPT ![idx] = Resource_remove_writing(rs[idx], idx \notin psn)]
    ELSE rs

\* ------------------------------------------------------ ThreadsVisualizer
ThreadInfo == [state |-> Idle, resource_in_use |-> None]

\* ThreadsVisualizer::new(num_threads)
ThreadsVisualizer_new(num_threads) ==
    [index \in 0..(num_threads - 1) |-> ThreadInfo]

\* one call made on the pool, as logged in last.calls (ret of remove_* is unit)
PoolCall(fn, idx, ret) == [fn |-> fn, idx |-> idx, ret |-> ret]

\* record of a completed call
CallRecord(op, index, state, res, ret, calls) ==
    [op |-> op, index |-> index, state |-> state, res |-> res,
     ret |-> ret, calls |-> calls]

NoCall == CallRecord("none", None, Idle, None, FALSE, << >>)

\* the release step always calling remove_reading, whatever the thread's state
ReleaseOld_AlwaysReading(thread, rs, psn) ==
    IF thread.resource_in_use # None
    THEN [resources |-> ResourceBox_remove_reading(rs, psn, thread.resource_in_use),
          calls |-> << PoolCall("remove_reading", thread.resource_in_use, TRUE) >>]
    ELSE [resources |-> rs, calls |-> << >>]

\* the release step left out: the old hold is forgotten, never given back
ReleaseOld_Never(thread, rs, psn) ==
    [resources |-> rs, calls |-> << >>]

\* set_thread_resource_state, lines 126-132: release what the thread holds,
\* choosing the release by the thread's current state
ReleaseOld(thread, rs, psn) ==
    IF thread.resource_in_use # None
    THEN CASE thread.state = Reading ->
                [resources |-> ResourceBox_remove_reading(rs, psn, thread.resource_in_use),
                 calls |-> << PoolCall("remove_reading", thread.resource_in_use, TRUE) >>]
           [] thread.state = Writing ->
                [resources |-> ResourceBox_remove_writing(rs, psn, thread.resource_in_use),
                 calls |-> << PoolCall("remove_writing", thread.resource_in_use, TRUE) >>]
           [] OTHER -> [resources |-> rs, calls |-> << >>]
    ELSE [resources |-> rs, calls |-> << >>]

\* the acquire step recording the requested resource even when refused
AcquireNew_KeepOnFail(thread, rs, psn, new_state, new_resource) ==
    IF new_resource # None /\ new_state \in {Reading, Writing}
    THEN LET r == IF new_state = Reading
                  THEN ResourceBox_try_set_reading(rs, psn, new_resource)
                  ELSE ResourceBox_try_set_writing(rs, psn, new_resource)
         IN  [thread |-> IF r.ret
                         THEN [thread EXCEPT !.resource_in_use = new_resource]
                         ELSE [state |-> Waiting, resource_in_use |-> new_resource],
              resources |-> r.resources,
              calls |-> << PoolCall(IF new_state = Reading THEN "try_set_reading"
                                    ELSE "try_set_writing", new_resource, r.ret) >>]
    ELSE [thread |-> thread, resources |-> rs, calls |-> << >>]

\* the acquire step leaving the requested state in place when refused
AcquireNew_NoWaitingOverride(thread, rs, psn, new_state, new_resource) ==
    IF new_resource # None /\ new_state \in {Reading, Writing}
    THEN LET r == IF new_state = Reading
                  THEN ResourceBox_try_set_reading(rs, psn, new_resource)
                  ELSE ResourceBox_try_set_writing(rs, psn, new_resource)
         IN  [thread |-> IF r.ret
                         THEN [thread EXCEPT !.resource_in_use = new_resource]
                         ELSE thread,
              resources |-> r.resources,
              calls |-> << PoolCall(IF new_state = Reading THEN "try_set_reading"
                                    ELSE "try_set_writing", new_resource, r.ret) >>]
    ELSE [thread |-> thread, resources |-> rs, calls |-> << >>]

\* the acquire step treating a Reading/Writing request without a resource as
\* a refusal
AcquireNew_WaitWithoutResource(thread, rs, psn, new_state, new_resource) ==
    IF new_state \in {Reading, Writing}
    THEN IF new_resource = None
         THEN [thread |-> [thread EXCEPT !.state = Waiting],
               resources |-> rs, calls |-> << >>]
         ELSE LET r == IF new_state = Reading
                       THEN ResourceBox_try_set_reading(rs, psn, new_resource)
                       ELSE ResourceBox_try_set_writing(rs, psn, new_resource)
              IN  [thread |-> IF r.ret
                              THEN [thread EXCEPT !.resource_in_use = new_resource]
                              ELSE [thread EXCEPT !.state = Waiting],
                   resources |-> r.resources,
                   calls |-> << PoolCall(IF new_state = Reading THEN "try_set_reading"
                                         ELSE "try_set_writing", new_resource, r.ret) >>]
    ELSE [thread |-> thread, resources |-> rs, calls |-> << >>]

\* the acquire step attempting an acquisition whenever a resource is
\* supplied, whatever the requested state
AcquireNew_AcquireForAnyState(thread, rs, psn, new_state, new_resource) ==
    IF new_resource # None
    THEN LET r == IF new_state = Writing
                  THEN ResourceBox_try_set_writing(rs, psn, new_resource)
                  ELSE ResourceBox_try_set_reading(rs, psn, new_resource)
         IN  [thread |-> IF r.ret
                         THEN [thread EXCEPT !.resource_in_use = new_resource]
                         ELSE [thread EXCEPT !.state = Waiting],
              resources |-> r.resources,
              calls |-> << PoolCall(IF new_state = Writing THEN "try_set_writing"
                                    ELSE "try_set_reading", new_resource, r.ret) >>]
    ELSE [thread |-> thread, resources |-> rs, calls |-> << >>]

\* set_thread_resource_state, lines 136-157: the thread already has
\* resource_in_use = None and state = new_state; try the matching acquisition
AcquireNew(thread, rs, psn, new_state, new_resource) ==
    IF new_resource # None /\ new_state = Reading
    THEN LET r == ResourceBox_try_set_reading(rs, psn, new_resource)
         IN  [thread |-> IF r.ret
                         THEN [thread EXCEPT !.resource_in_use = new_resource]
                         ELSE [thread EXCEPT !.state = Waiting],
              resources |-> r.resources,
              calls |-> << PoolCall("try_set_reading", new_resource, r.ret) >>]
    ELSE IF new_resource # None /\ new_state = Writing
    THEN LET r == ResourceBox_try_set_writing(rs, psn, new_resource)
         IN  [thread |-> IF r.ret
                         THEN [thread EXCEPT !.resource_in_use = new_resource]
                         ELSE [thread EXCEPT !.state = Waiting],
              resources |-> r.resources,
              calls |-> << PoolCall("try_set_writing", new_resource, r.ret) >>]
    ELSE [thread |-> thread, resources |-> rs, calls |-> << >>]

\* set_thread_resource_state acquiring the new resource before it releases
\* the old one
set_thread_resource_state_AcquireFirst(ths, rs, psn, index, new_state, new_resource) ==
    IF index \in DOMAIN ths
    THEN LET cleared == [state |-> new_state, resource_in_use |-> None]
             acq == AcquireNew(cleared, rs, psn, new_state, new_resource)
             rel == ReleaseOld(ths[index], acq.resources, psn)
         IN  [threads |-> [ths EXCEPT ![index] = acq.thread],
              resources |-> rel.resources,
              calls |-> acq.calls \o rel.calls]
    ELSE [threads |-> ths, resources |-> rs, calls |-> << >>]

\* set_thread_resource_state clamping an out-of-range index to the last
\* entity instead of returning
set_thread_resource_state_ClampIndex(ths, rs, psn, index, new_state, new_resource) ==
    LET n == Cardinality(DOMAIN ths)
        at == IF index >= n THEN n - 1 ELSE index
    IN  IF at \in DOMAIN ths
        THEN LET rel == ReleaseOld(ths[at], rs, psn)
                 cleared == [state |-> new_state, resource_in_use |-> None]
                 acq == AcquireNew(cleared, rel.resources, psn, new_state, new_resource)
             IN  [threads |-> [ths EXCEPT ![at] = acq.thread],
                  resources |-> acq.resources,
                  calls |-> rel.calls \o acq.calls]
        ELSE [threads |-> ths, resources |-> rs, calls |-> << >>]

\* set_thread_resource_state waking the Waiting entities when it releases a
\* hold
set_thread_resource_state_WakeWaiters(ths, rs, psn, index, new_state, new_resource) ==
    IF index \in DOMAIN ths
    THEN LET rel == ReleaseOld(ths[index], rs, psn)
             cleared == [state |-> new_state, resource_in_use |-> None]
             acq == AcquireNew(cleared, rel.resources, psn, new_state, new_resource)
         IN  [threads |-> [u \in DOMAIN ths |->
                             IF u = index THEN acq.thread
                             ELSE IF rel.calls # << >> /\ ths[u].state = Waiting
                                  THEN [ths[u] EXCEPT !.state = Idle]
                                  ELSE ths[u]],
              resources |-> acq.resources,
              calls |-> rel.calls \o acq.calls]
    ELSE [threads |-> ths, resources |-> rs, calls |-> << >>]

\* ThreadsVisualizer::set_thread_resource_state(resource_box, index, new_state,
\* new_resource): threads.get_mut(index), release, reset, acquire
set_thread_resource_state(ths, rs, psn, index, new_state, new_resource) ==
    IF index \in DOMAIN ths
    THEN LET rel == ReleaseOld(ths[index], rs, psn)
             cleared == [state |-> new_state, resource_in_use |-> None]
             acq == AcquireNew(cleared, rel.resources, psn, new_state, new_resource)
         IN  [threads |-> [ths EXCEPT ![index] = acq.thread],
              resources |-> acq.resources,
              calls |-> rel.calls \o acq.calls]
    ELSE [threads |-> ths, resources |-> rs, calls |-> << >>]

\* the empty-pool check answering that no pool is empty
EmptyPool_Never(rs) == FALSE

\* update_threads_randomly, lines 164-167: total == 0
EmptyPool(rs) == Cardinality(DOMAIN rs) = 0

\* update_threads_randomly, line 178: the range random_range draws the
\* resource from; nothing is drawn for Idle and Waiting
PickRange(new_state, rs) ==
    IF new_state = Reading \/ new_state = Writing THEN DOMAIN rs ELSE {None}

\* update_threads_randomly, lines 170-176: the state a roll selects
RollState(roll) ==
    CASE roll = 0 -> Idle
      [] roll = 1 -> Waiting
      [] roll = 2 -> Reading
      [] roll = 3 -> Writing
      [] OTHER -> Idle

\* the resource draw made from the inclusive range 0..=total
DrawResource_Inclusive(new_state, pick) ==
    IF new_state = Reading \/ new_state = Writing THEN pick + 1 ELSE None

\* the resource draw that gives a resource to Reading only
DrawResource_ReadingOnly(new_state, pick) ==
    IF new_state = Reading THEN pick ELSE None

\* update_threads_randomly, lines 177-181: the resource drawn with a state;
\* pick is random_range(0..total)
DrawResource(new_state, pick) ==
    IF new_state = Reading \/ new_state = Writing THEN pick ELSE None

\* update_threads_randomly, lines 169-181: the (state, resource) pairs one
\* iteration can draw from a pool rs
TickDraws(rs) ==
    UNION { { [state |-> RollState(roll),
               res |-> DrawResource(RollState(roll), pick)] :
              pick \in PickRange(RollState(roll), rs) } : roll \in 0..3 }

\* update_threads_randomly, lines 168-183: the iterations of the for loop for
\* the entities from..to-1 in ascending order; ds[i + 1] is the draw of
\* entity i
RECURSIVE ForLoop(_, _, _, _, _, _)
ForLoop(ths, rs, psn, ds, from, to) ==
    IF to <= from
    THEN [threads |-> ths, resources |-> rs]
    ELSE LET p == ForLoop(ths, rs, psn, ds, from, to - 1)
             r == set_thread_resource_state(p.threads, p.resources, psn, to - 1,
                                            ds[to].state, ds[to].res)
         IN  [threads |-> r.threads, resources |-> r.resources]

\* the iterations of a loop that visits the entities in descending order
RECURSIVE ForLoopDown(_, _, _, _, _, _)
ForLoopDown(ths, rs, psn, ds, from, to) ==
    IF to <= from
    THEN [threads |-> ths, resources |-> rs]
    ELSE LET p == ForLoopDown(ths, rs, psn, ds, from + 1, to)
             r == set_thread_resource_state(p.threads, p.resources, psn, from,
                                            ds[from + 1].state, ds[from + 1].res)
         IN  [threads |-> r.threads, resources |-> r.resources]

\* a tick whose loop runs from the last entity down to the first
update_threads_randomly_Descending(ths, rs, psn, ds) ==
    IF EmptyPool(rs)
    THEN [threads |-> ths, resources |-> rs]
    ELSE ForLoopDown(ths, rs, psn, ds, 0, Cardinality(DOMAIN ths))

\* update_threads_randomly, lines 162-184, as a function of the draws ds made
\* for the entities: the threads and the pool when the call returns
update_threads_randomly(ths, rs, psn, ds) ==
    IF EmptyPool(rs)
    THEN [threads |-> ths, resources |-> rs]
    ELSE ForLoop(ths, rs, psn, ds, 0, Cardinality(DOMAIN ths))

\* ------------------------------------------------------------------ Init
Init ==
    \E resources_len \in 0..MaxResources, num_threads \in 0..MaxThreads :
        /\ resources = ResourceBox_new(resources_len)
        /\ poisoned = {}
        /\ threads = ThreadsVisualizer_new(num_threads)
        /\ pc = "main"
        /\ loop_i = 0
        /\ draws = << >>
        /\ entry_resources = resources
        /\ last = NoCall

\* indices a caller may pass: every valid one and the first invalid one
ResourceArgs == 0..Cardinality(DOMAIN resources)
ThreadArgs == 0..Cardinality(DOMAIN threads)

\* ------------------------------------------- direct calls on the ResourceBox
TrySetReadingCall ==
    /\ pc = "main"
    /\ \E idx \in ResourceArgs :
        /\ idx \in DOMAIN resources => resources[idx].read_count < MaxCount
        /\ LET r == ResourceBox_try_set_reading(resources, poisoned, idx)
           IN  /\ resources' = r.resources
               /\ last' = CallRecord("try_set_reading", None, Idle, idx, r.ret, << >>)
    /\ UNCHANGED <<poisoned, threads, pc, loop_i, draws, entry_resources>>

TrySetWritingCall ==
    /\ pc = "main"
    /\ \E idx \in ResourceArgs :
        LET r == ResourceBox_try_set_writing(resources, poisoned, idx)
        IN  /\ resources' = r.resources
            /\ last' = CallRecord("try_set_writing", None, Idle, idx, r.ret, << >>)
    /\ UNCHANGED <<poisoned, threads, pc, loop_i, draws, entry_resources>>

RemoveReadingCall ==
    /\ pc = "main"
    /\ \E idx \in ResourceArgs :
        /\ resources' = ResourceBox_remove_reading(resources, poisoned, idx)
        /\ last' = CallRecord("remove_reading", None, Idle, idx, TRUE, << >>)
    /\ UNCHANGED <<poisoned, threads, pc, loop_i, draws, entry_resources>>

RemoveWritingCall ==
    /\ pc = "main"
    /\ \E idx \in ResourceArgs :
        /\ resources' = ResourceBox_remove_writing(resources, poisoned, idx)
        /\ last' = CallRecord("remove_writing", None, Idle, idx, TRUE, << >>)
    /\ UNCHANGED <<poisoned, threads, pc, loop_i, draws, entry_resources>>

NextPool ==
    \/ TrySetReadingCall
    \/ TrySetWritingCall
    \/ RemoveReadingCall
    \/ RemoveWritingCall

\* the pool driven directly by any caller
SpecPool == Init /\ [][NextPool]_vars

\* --------------------------------------- calls on the ThreadsVisualizer
\* a direct call of set_thread_resource_state with any arguments
SetThreadResourceStateCall ==
    /\ pc = "main"
    /\ \E index \in ThreadArgs, new_state \in ThreadState,
          new_resource \in {None} \cup ResourceArgs :
        LET r == set_thread_resource_state(threads, resources, poisoned,
                                           index, new_state, new_resource)
        IN  /\ threads' = r.threads
            /\ resources' = r.resources
            /\ last' = CallRecord("set_thread_resource_state", index, new_state,
                                  new_resource, FALSE, r.calls)
    /\ draws' = << >>
    /\ entry_resources' = resources'
    /\ UNCHANGED <<poisoned, pc, loop_i>>

\* update_threads_randomly, lines 164-168: return at once on an empty pool,
\* else enter the for loop
UpdateThreadsRandomlyEnter ==
    /\ pc = "main"
    /\ draws' = << >>
    /\ entry_resources' = resources
    /\ loop_i' = 0
    /\ IF EmptyPool(resources)
       THEN /\ pc' = "main"
            /\ last' = CallRecord("update_threads_randomly", None, Idle, None,
                                  FALSE, << >>)
       ELSE /\ pc' = "loop"
            /\ last' = NoCall
    /\ UNCHANGED <<resources, poisoned, threads>>

\* update_threads_randomly, lines 168-183: one iteration of the for loop
UpdateThreadsRandomlyIter ==
    /\ pc = "loop"
    /\ loop_i < Cardinality(DOMAIN threads)
    /\ \E roll \in 0..3 : \E pick \in PickRange(RollState(roll), resources) :
        LET new_state == RollState(roll)
            new_res == DrawResource(new_state, pick)
            r == set_thread_resource_state(threads, resources, poisoned,
                                           loop_i, new_state, new_res)
        IN  /\ threads' = r.threads
            /\ resources' = r.resources
            /\ draws' = Append(draws, [state |-> new_state, res |-> new_res])
            /\ last' = CallRecord("set_thread_resource_state", loop_i, new_state,
                                  new_res, FALSE, r.calls)
    /\ loop_i' = loop_i + 1
    /\ UNCHANGED <<poisoned, pc, entry_resources>>

\* update_threads_randomly, line 183-184: the range is exhausted, return
UpdateThreadsRandomlyExit ==
    /\ pc = "loop"
    /\ loop_i >= Cardinality(DOMAIN threads)
    /\ pc' = "main"
    /\ loop_i' = 0
    /\ last' = CallRecord("update_threads_randomly", None, Idle, None, FALSE, << >>)
    /\ UNCHANGED <<resources, poisoned, threads, draws, entry_resources>>

Next ==
    \/ SetThreadResourceStateCall
    \/ UpdateThreadsRandomlyEnter
    \/ UpdateThreadsRandomlyIter
    \/ UpdateThreadsRandomlyExit

\* the coordinator driven by direct reconciles and by ticks
Spec == Init /\ [][Next]_vars

\* ------------------------------------------------------- a poisoned lock
\* the RwLock of a resource becomes poisoned: from then on data.write()
\* returns Err (resource_box.rs lines 43, 58, 72, 81)
PoisonLock ==
    /\ pc = "main"
    /\ \E idx \in DOMAIN resources \ poisoned : poisoned' = poisoned \cup {idx}
    /\ last' = NoCall
    /\ UNCHANGED <<resources, threads, pc, loop_i, draws, entry_resources>>

NextPoison ==
    \/ NextPool
    \/ PoisonLock

\* the pool driven directly, with locks that may become poisoned
SpecPoison == Init /\ [][NextPoison]_vars

NextTicks ==
    \/ UpdateThreadsRandomlyEnter
    \/ UpdateThreadsRandomlyIter
    \/ UpdateThreadsRandomlyExit

\* the coordinator driven by update_threads_randomly alone, as main drives it
SpecTicks == Init /\ [][NextTicks]_vars

\* the same, with the for loop of update_threads_randomly running to its end
\* once entered: it neither blocks nor waits
SpecTicksFair ==
    /\ Init
    /\ [][NextTicks]_vars
    /\ WF_vars(UpdateThreadsRandomlyIter)
    /\ WF_vars(UpdateThreadsRandomlyExit)

\* ====================================================================
\*                         Properties of the pool
\* ====================================================================

\* C1. Mutual exclusion: after any sequence of try_set_reading,
\* try_set_writing, remove_reading and remove_writing calls on any indices,
\* every resource has write_count <= 1, and no readers while it has a writer.
MutualExclusion ==
    \A idx \in DOMAIN resources :
        /\ resources[idx].write_count <= 1
        /\ resources[idx].write_count > 0 => resources[idx].read_count = 0

\* a reader was just refused by a resource that has its one writer
MutualExclusionWitness ==
    /\ last.op = "try_set_reading"
    /\ last.res \in DOMAIN resources
    /\ ~last.ret
    /\ resources[last.res] = [read_count |-> 0, write_count |-> 1]

\* C4. try_set_reading(idx) on an in-range resource returns true and adds
\* exactly 1 to read_count (write_count unchanged) iff write_count = 0 at the
\* call; otherwise it returns false and leaves both counters; no other
\* resource changes in either case.
TrySetReadingContract ==
    [][(last'.op = "try_set_reading" /\ last'.res \in DOMAIN resources) =>
        LET idx == last'.res
        IN  /\ last'.ret <=> (resources[idx].write_count = 0)
            /\ last'.ret =>
                 /\ resources'[idx].read_count = resources[idx].read_count + 1
                 /\ resources'[idx].write_count = resources[idx].write_count
            /\ ~last'.ret => resources'[idx] = resources[idx]
            /\ DOMAIN resources' = DOMAIN resources
            /\ \A o \in DOMAIN resources \ {idx} : resources'[o] = resources[o]
      ]_vars

\* a second reader was just admitted while another resource has a writer
TrySetReadingWitness ==
    /\ last.op = "try_set_reading"
    /\ last.res \in DOMAIN resources
    /\ last.ret
    /\ resources[last.res].read_count = 2
    /\ \E o \in DOMAIN resources \ {last.res} : resources[o].write_count = 1

\* C5. try_set_writing(idx) on an in-range resource returns true and sets
\* write_count to 1 (read_count stays 0) iff read_count = 0 and write_count = 0
\* at the call; otherwise it returns false and leaves both counters; no other
\* resource changes in either case.
TrySetWritingContract ==
    [][(last'.op = "try_set_writing" /\ last'.res \in DOMAIN resources) =>
        LET idx == last'.res
        IN  /\ last'.ret <=> (resources[idx].read_count = 0 /\ resources[idx].write_count = 0)
            /\ last'.ret => resources'[idx] = [read_count |-> 0, write_count |-> 1]
            /\ ~last'.ret => resources'[idx] = resources[idx]
            /\ DOMAIN resources' = DOMAIN resources
            /\ \A o \in DOMAIN resources \ {idx} : resources'[o] = resources[o]
      ]_vars

\* a writer was just admitted while another resource has readers
TrySetWritingWitness ==
    /\ last.op = "try_set_writing"
    /\ last.res \in DOMAIN resources
    /\ last.ret
    /\ resources[last.res] = [read_count |-> 0, write_count |-> 1]
    /\ \E o \in DOMAIN resources \ {last.res} : resources[o].read_count = 2

\* C6. Idempotent release: remove_reading (remove_writing) takes exactly 1
\* from read_count (write_count) when it is > 0 and does nothing when it is 0,
\* never touches the other counter or another resource, and after any
\* sequence of pool calls no counter is negative.
IdempotentRelease ==
    [][/\ (last'.op = "remove_reading" /\ last'.res \in DOMAIN resources) =>
            LET idx == last'.res
            IN  /\ resources'[idx].read_count =
                     IF resources[idx].read_count > 0
                     THEN resources[idx].read_count - 1 ELSE 0
                /\ resources'[idx].write_count = resources[idx].write_count
                /\ \A o \in DOMAIN resources \ {idx} : resources'[o] = resources[o]
       /\ (last'.op = "remove_writing" /\ last'.res \in DOMAIN resources) =>
            LET idx == last'.res
            IN  /\ resources'[idx].write_count =
                     IF resources[idx].write_count > 0
                     THEN resources[idx].write_count - 1 ELSE 0
                /\ resources'[idx].read_count = resources[idx].read_count
                /\ \A o \in DOMAIN resources \ {idx} : resources'[o] = resources[o]
       /\ \A idx \in DOMAIN resources' :
            resources'[idx].read_count >= 0 /\ resources'[idx].write_count >= 0
      ]_vars

\* a release just took one of two readers away
IdempotentReleaseWitness ==
    /\ last.op = "remove_reading"
    /\ last.res \in DOMAIN resources
    /\ resources[last.res] = [read_count |-> 1, write_count |-> 0]

\* ====================================================================
\*                      Properties of the coordinator
\* ====================================================================

\* the entities that hold resource r in the given state
Holders(r, state) ==
    {t \in DOMAIN threads :
        threads[t].resource_in_use = r /\ threads[t].state = state}

\* a logged pool call that is an acquisition attempt
IsTry(c) == c.fn \in {"try_set_reading", "try_set_writing"}

\* the step is a set_thread_resource_state call on a valid entity
Reconciled == last'.op = "set_thread_resource_state" /\ last'.index \in DOMAIN threads

\* entity t holds a resource before the step
HoldsBefore(t) ==
    threads[t].resource_in_use # None /\ threads[t].state \in {Reading, Writing}

\* the counters the claims expect right after the release step of a call on
\* entity t: its hold, if any, taken off the counter of its current state
AfterReleaseStep(t) ==
    [r \in DOMAIN resources |->
        IF HoldsBefore(t) /\ threads[t].resource_in_use = r
        THEN IF threads[t].state = Reading
             THEN [read_count |-> resources[r].read_count - 1,
                   write_count |-> resources[r].write_count]
             ELSE [read_count |-> resources[r].read_count,
                   write_count |-> resources[r].write_count - 1]
        ELSE resources[r]]

\* C2. Conservation: after any sequence of set_thread_resource_state and
\* update_threads_randomly calls, each resource's read_count is the number of
\* entities holding it as Reading and its write_count the number holding it
\* as Writing.
Conservation ==
    \A r \in DOMAIN resources :
        /\ resources[r].read_count = Cardinality(Holders(r, Reading))
        /\ resources[r].write_count = Cardinality(Holders(r, Writing))

\* an entity just gave up one hold and became the second reader of a resource
ConservationWitness ==
    /\ last.op = "set_thread_resource_state"
    /\ Len(last.calls) = 2
    /\ last.calls[2].ret
    /\ \E r \in DOMAIN resources : Cardinality(Holders(r, Reading)) = 2

\* C3. Entity invariant: an entity whose resource_in_use is Some is Reading
\* or Writing; every Waiting or Idle entity has resource_in_use = None.
EntityInvariant ==
    \A t \in DOMAIN threads :
        threads[t].resource_in_use # None => threads[t].state \in {Reading, Writing}

\* inside a tick, an entity was just refused and is Waiting with no resource
\* while another entity holds one as Writing
EntityInvariantWitness ==
    /\ pc = "loop"
    /\ last.op = "set_thread_resource_state"
    /\ last.index \in DOMAIN threads
    /\ threads[last.index] = [state |-> Waiting, resource_in_use |-> None]
    /\ \E k \in DOMAIN last.calls : IsTry(last.calls[k]) /\ ~last.calls[k].ret
    /\ \E t \in DOMAIN threads :
         threads[t].state = Writing /\ threads[t].resource_in_use # None

\* C7. Release before acquire, unconditionally: a call on an entity holding
\* old as Reading (Writing) first calls remove_reading (remove_writing) on old,
\* every acquisition attempt comes after it and is decided on the counters
\* with that hold taken off; after the call the entity holds a resource only
\* if a try-acquire of this call on that resource returned true, and when no
\* acquisition succeeds the entity holds nothing and its old hold is gone
\* from the counters.
ReleaseBeforeAcquire ==
    [][Reconciled =>
        LET t == last'.index
            old == threads[t].resource_in_use
            calls == last'.calls
            mid == AfterReleaseStep(t)
            tries == {k \in DOMAIN calls : IsTry(calls[k])}
        IN  /\ HoldsBefore(t) =>
                 /\ Len(calls) >= 1
                 /\ calls[1] = PoolCall(IF threads[t].state = Reading
                                        THEN "remove_reading" ELSE "remove_writing",
                                        old, TRUE)
                 /\ \A k \in tries : k > 1
            /\ \A k \in tries :
                 calls[k].idx \in DOMAIN resources =>
                    (calls[k].ret <=>
                        IF calls[k].fn = "try_set_reading"
                        THEN mid[calls[k].idx].write_count = 0
                        ELSE mid[calls[k].idx] = [read_count |-> 0, write_count |-> 0])
            /\ threads'[t].resource_in_use # None =>
                 \E k \in tries :
                    calls[k].ret /\ calls[k].idx = threads'[t].resource_in_use
            /\ (\A k \in tries : ~calls[k].ret) =>
                 /\ threads'[t].resource_in_use = None
                 /\ resources' = mid
      ]_vars

\* the writer of a resource just became its reader: the read was admitted
\* only because the write had been released first
ReleaseBeforeAcquireWitness ==
    /\ last.op = "set_thread_resource_state"
    /\ last.index \in DOMAIN threads
    /\ Len(last.calls) = 2
    /\ last.calls[1] = PoolCall("remove_writing", last.res, TRUE)
    /\ last.calls[2] = PoolCall("try_set_reading", last.res, TRUE)
    /\ threads[last.index] = [state |-> Reading, resource_in_use |-> last.res]

\* C8. Grant or wait: a call on a valid entity requesting s in {Reading,
\* Writing} on Some(r) makes the matching try-acquire on r; if it succeeds the
\* entity ends in state s holding r, if it fails the entity ends Waiting with
\* no resource and r's counters are as just after the release step.
GrantOrWait ==
    [][(Reconciled /\ last'.state \in {Reading, Writing} /\ last'.res # None) =>
        LET t == last'.index
            r == last'.res
            calls == last'.calls
            mid == AfterReleaseStep(t)
        IN  /\ Len(calls) >= 1
            /\ LET try == calls[Len(calls)]
               IN  /\ try.fn = IF last'.state = Reading
                               THEN "try_set_reading" ELSE "try_set_writing"
                   /\ try.idx = r
                   /\ try.ret =>
                        threads'[t] = [state |-> last'.state, resource_in_use |-> r]
                   /\ ~try.ret =>
                        /\ threads'[t] = [state |-> Waiting, resource_in_use |-> None]
                        /\ r \in DOMAIN resources => resources'[r] = mid[r]
      ]_vars

\* a reader of one resource asked to write another, was refused, and is now
\* Waiting with no resource
GrantOrWaitWitness ==
    /\ last.op = "set_thread_resource_state"
    /\ last.index \in DOMAIN threads
    /\ last.state = Writing
    /\ last.res \in DOMAIN resources
    /\ Len(last.calls) = 2
    /\ last.calls[1].fn = "remove_reading"
    /\ last.calls[1].idx # last.res
    /\ last.calls[2] = PoolCall("try_set_writing", last.res, FALSE)
    /\ threads[last.index] = [state |-> Waiting, resource_in_use |-> None]

\* update_threads_randomly has just returned from a full pass of its loop
TickReturned ==
    /\ pc = "main"
    /\ last.op = "update_threads_randomly"
    /\ Len(draws) = Cardinality(DOMAIN threads)
    /\ Len(draws) > 0

\* entities a < b both drew Writing against resource r in the tick
BothDrewWriting(a, b, r) ==
    /\ a < b
    /\ draws[a + 1] = [state |-> Writing, res |-> r]
    /\ draws[b + 1] = [state |-> Writing, res |-> r]

WaitingOnlyByRejection ==
    (/\ last.op = "set_thread_resource_state"
     /\ last.index \in DOMAIN threads
     /\ threads[last.index].state = Waiting) =>
        \E k \in DOMAIN last.calls : IsTry(last.calls[k]) /\ ~last.calls[k].ret

\* C10 as amended. An entity is Waiting after a set_thread_resource_state
\* call only if the call requested Waiting or attempted an acquisition that
\* failed.
WaitingByRequestOrRejection ==
    (/\ last.op = "set_thread_resource_state"
     /\ last.index \in DOMAIN threads
     /\ threads[last.index].state = Waiting) =>
        \/ last.state = Waiting
        \/ \E k \in DOMAIN last.calls : IsTry(last.calls[k]) /\ ~last.calls[k].ret

\* an entity was asked to be Waiting, with a resource index that was
\* discarded, and is Waiting though no acquisition was attempted
WaitingByRequestWitness ==
    /\ last.op = "set_thread_resource_state"
    /\ last.index \in DOMAIN threads
    /\ last.state = Waiting
    /\ last.res \in DOMAIN resources
    /\ \A k \in DOMAIN last.calls : ~IsTry(last.calls[k])
    /\ threads[last.index] = [state |-> Waiting, resource_in_use |-> None]

\* C11. A writer blocks everyone else: while entity A holds resource R as
\* Writing, with R at (0,1), a set_thread_resource_state call for any other
\* entity B requesting Reading or Writing on R leaves B Waiting with no
\* resource, leaves R at (0,1) and leaves A unchanged.
WriterBlocksOthers ==
    [][(Reconciled /\ last'.state \in {Reading, Writing}
                   /\ last'.res \in DOMAIN resources) =>
        LET B == last'.index
            R == last'.res
        IN  \A A \in DOMAIN threads \ {B} :
                (/\ threads[A] = [state |-> Writing, resource_in_use |-> R]
                 /\ resources[R] = [read_count |-> 0, write_count |-> 1]) =>
                    /\ threads'[B] = [state |-> Waiting, resource_in_use |-> None]
                    /\ resources'[R] = [read_count |-> 0, write_count |-> 1]
                    /\ threads'[A] = threads[A]
      ]_vars

\* a reader asked for a resource that another entity holds as Writing, and
\* was left Waiting while the writer kept it
WriterBlocksOthersWitness ==
    /\ last.op = "set_thread_resource_state"
    /\ last.index \in DOMAIN threads
    /\ last.state = Reading
    /\ last.res \in DOMAIN resources
    /\ last.calls = << PoolCall("try_set_reading", last.res, FALSE) >>
    /\ threads[last.index] = [state |-> Waiting, resource_in_use |-> None]
    /\ Holders(last.res, Writing) # {}
    /\ resources[last.res] = [read_count |-> 0, write_count |-> 1]

\* C12. Sole holder can always re-acquire: if entity A is the only entity
\* holding resource R, a call for A requesting s in {Reading, Writing} on R
\* first drops R to (0,0) and then succeeds: A ends in state s holding R, with
\* R at (1,0) for Reading and (0,1) for Writing.
SoleHolderReacquires ==
    [][(Reconciled /\ last'.state \in {Reading, Writing}
                   /\ last'.res \in DOMAIN resources) =>
        LET A == last'.index
            R == last'.res
            calls == last'.calls
        IN  (/\ HoldsBefore(A)
             /\ threads[A].resource_in_use = R
             /\ \A u \in DOMAIN threads \ {A} : threads[u].resource_in_use # R) =>
                /\ AfterReleaseStep(A)[R] = [read_count |-> 0, write_count |-> 0]
                /\ Len(calls) = 2
                /\ ~IsTry(calls[1]) /\ calls[1].idx = R
                /\ IsTry(calls[2]) /\ calls[2].idx = R /\ calls[2].ret
                /\ threads'[A] = [state |-> last'.state, resource_in_use |-> R]
                /\ resources'[R] = IF last'.state = Reading
                                   THEN [read_count |-> 1, write_count |-> 0]
                                   ELSE [read_count |-> 0, write_count |-> 1]
      ]_vars

\* the only reader of a resource just became its writer
SoleHolderReacquiresWitness ==
    /\ last.op = "set_thread_resource_state"
    /\ last.index \in DOMAIN threads
    /\ last.state = Writing
    /\ last.calls = << PoolCall("remove_reading", last.res, TRUE),
                       PoolCall("try_set_writing", last.res, TRUE) >>
    /\ threads[last.index] = [state |-> Writing, resource_in_use |-> last.res]
    /\ resources[last.res] = [read_count |-> 0, write_count |-> 1]

\* C13. Non-holding requests: a call requesting Idle or Waiting attempts no
\* acquisition whether the requested resource is None or Some(r); the entity
\* ends in exactly the requested state with no resource, and the only counter
\* that may change is the one released for the entity's previous hold.
NonHoldingRequest ==
    [][(Reconciled /\ last'.state \in {Idle, Waiting}) =>
        LET t == last'.index
        IN  /\ \A k \in DOMAIN last'.calls : ~IsTry(last'.calls[k])
            /\ threads'[t] = [state |-> last'.state, resource_in_use |-> None]
            /\ resources' = AfterReleaseStep(t)
      ]_vars

\* a writer was asked to be Idle with a resource index supplied: it released
\* its hold, acquired nothing and is Idle
NonHoldingRequestWitness ==
    /\ last.op = "set_thread_resource_state"
    /\ last.index \in DOMAIN threads
    /\ last.state = Idle
    /\ last.res \in DOMAIN resources
    /\ Len(last.calls) = 1
    /\ last.calls[1].fn = "remove_writing"
    /\ threads[last.index] = [state |-> Idle, resource_in_use |-> None]
    /\ resources[last.res] = [read_count |-> 0, write_count |-> 0]

\* ====================================================================
\*                         Properties of the tick
\* ====================================================================

\* C14. Empty-pool no-op: with a pool of zero resources, any number of
\* update_threads_randomly calls from the initial state makes no draw and no
\* reconcile, and every entity stays Idle with no resource.
EmptyPoolNoOp ==
    Cardinality(DOMAIN resources) = 0 =>
        /\ pc = "main"
        /\ draws = << >>
        /\ last.op # "set_thread_resource_state"
        /\ \A t \in DOMAIN threads : threads[t] = [state |-> Idle, resource_in_use |-> None]

\* update_threads_randomly has returned on an empty pool with entities to
\* update
EmptyPoolNoOpWitness ==
    /\ Cardinality(DOMAIN resources) = 0
    /\ Cardinality(DOMAIN threads) = MaxThreads
    /\ last.op = "update_threads_randomly"
    /\ pc = "main"

\* ====================================================================
\*                          Out-of-range indices
\* ====================================================================

\* resource indices past the end of the pool
PastPool == Cardinality(DOMAIN resources)..(Cardinality(DOMAIN resources) + 1)

\* C15. Out-of-range index is a no-op: try_set_reading and try_set_writing
\* with idx >= pool size return false and change nothing, remove_reading and
\* remove_writing with idx >= pool size change nothing, and a
\* set_thread_resource_state call with an entity index >= number of entities
\* changes no counter and no entity, and makes no pool call (no release).
OutOfRangeNoOp ==
    [][/\ \A idx \in PastPool :
            /\ ResourceBox_try_set_reading(resources, poisoned, idx)
                 = [resources |-> resources, ret |-> FALSE]
            /\ ResourceBox_try_set_writing(resources, poisoned, idx)
                 = [resources |-> resources, ret |-> FALSE]
            /\ ResourceBox_remove_reading(resources, poisoned, idx) = resources
            /\ ResourceBox_remove_writing(resources, poisoned, idx) = resources
       /\ (last'.op = "set_thread_resource_state" /\ last'.index \notin DOMAIN threads) =>
            /\ last'.calls = << >>
            /\ threads' = threads
            /\ resources' = resources
      ]_vars

\* a call with an entity index past the end asked for a resource that is
\* free, while an entity holds another hold that was not released
OutOfRangeNoOpWitness ==
    /\ last.op = "set_thread_resource_state"
    /\ last.index = Cardinality(DOMAIN threads)
    /\ last.state = Writing
    /\ last.res \in DOMAIN resources
    /\ resources[last.res] = [read_count |-> 0, write_count |-> 0]
    /\ \E t \in DOMAIN threads : threads[t].resource_in_use # None

\* the step is a call on a valid entity requesting Reading or Writing on a
\* resource index past the end of the pool
RequestedPastPool ==
    /\ Reconciled
    /\ last'.state \in {Reading, Writing}
    /\ last'.res # None
    /\ last'.res \notin DOMAIN resources

\* C16 as claimed. Out-of-range requested resource degrades to no state
\* change: after such a call the entity's state and held resource and every
\* resource's counters are the same as before it.
OutOfRangeResourceNoChange ==
    [][RequestedPastPool => (threads' = threads /\ resources' = resources)]_vars

\* C16 as amended. Such a call is a refused acquisition: the entity's
\* previous hold is released, the try-acquire on the missing resource returns
\* false and changes no counter, the entity ends Waiting with no resource,
\* and no other entity changes.
OutOfRangeResourceRefused ==
    [][RequestedPastPool =>
        LET t == last'.index
            calls == last'.calls
        IN  /\ Len(calls) >= 1
            /\ calls[Len(calls)] =
                 PoolCall(IF last'.state = Reading THEN "try_set_reading"
                          ELSE "try_set_writing", last'.res, FALSE)
            /\ threads'[t] = [state |-> Waiting, resource_in_use |-> None]
            /\ \A u \in DOMAIN threads \ {t} : threads'[u] = threads[u]
            /\ resources' = AfterReleaseStep(t)
      ]_vars

\* a writer asked to read a resource past the end of the pool: it lost its
\* hold and is Waiting
OutOfRangeResourceWitness ==
    /\ last.op = "set_thread_resource_state"
    /\ last.index \in DOMAIN threads
    /\ last.state = Reading
    /\ last.res = Cardinality(DOMAIN resources)
    /\ Len(last.calls) = 2
    /\ last.calls[1].fn = "remove_writing"
    /\ last.calls[2] = PoolCall("try_set_reading", last.res, FALSE)
    /\ threads[last.index] = [state |-> Waiting, resource_in_use |-> None]
    /\ resources[last.calls[1].idx] = [read_count |-> 0, write_count |-> 0]

\* ====================================================================
\*                             A poisoned lock
\* ====================================================================

\* the names of the four pool methods
PoolOps == {"try_set_reading", "try_set_writing", "remove_reading", "remove_writing"}

\* C17. Lock failure is a failed operation: when the resource's lock is
\* poisoned, try_set_reading and try_set_writing return false, remove_reading
\* and remove_writing are skipped, and both counters of the resource (and of
\* every other resource) are left unchanged.
LockFailureFails ==
    [][(last'.op \in PoolOps /\ last'.res \in poisoned) =>
        /\ last'.op \in {"try_set_reading", "try_set_writing"} => ~last'.ret
        /\ resources' = resources
      ]_vars

\* a release was just called on a resource that has a writer and a poisoned
\* lock, and the writer is still counted
LockFailureWitness ==
    /\ last.op = "remove_writing"
    /\ last.res \in poisoned
    /\ resources[last.res] = [read_count |-> 0, write_count |-> 1]

\* ====================================================================
\*                          Frame of a reconcile
\* ====================================================================

\* C18. Frame of a reconcile and no automatic retry: a call on entity t
\* changes the state and held resource of no other entity and the counters of
\* no resource other than t's previously held resource and the requested one;
\* no other step changes an entity, so an entity left Waiting stays Waiting
\* with no resource until its own next reconcile, even when another entity's
\* reconcile frees the resource it was refused.
ReconcileFrame ==
    [][/\ Reconciled =>
            LET t == last'.index
            IN  /\ \A u \in DOMAIN threads \ {t} : threads'[u] = threads[u]
                /\ \A r \in DOMAIN resources \ {threads[t].resource_in_use, last'.res} :
                        resources'[r] = resources[r]
       /\ ~Reconciled => threads' = threads
       /\ \A u \in DOMAIN threads :
            (threads[u].state = Waiting /\ threads'[u] # threads[u]) =>
                (Reconciled /\ last'.index = u)
      ]_vars

\* inside a tick, a higher-indexed entity just released the resource that a
\* lower-indexed entity was refused as a writer; the resource is free and the
\* lower-indexed entity is still Waiting
ReconcileFrameWitness ==
    /\ pc = "loop"
    /\ last.op = "set_thread_resource_state"
    /\ last.index \in DOMAIN threads
    /\ Len(last.calls) = 1
    /\ ~IsTry(last.calls[1])
    /\ resources[last.calls[1].idx] = [read_count |-> 0, write_count |-> 0]
    /\ \E u \in 0..(last.index - 1) :
        /\ draws[u + 1] = [state |-> Writing, res |-> last.calls[1].idx]
        /\ threads[u] = [state |-> Waiting, resource_in_use |-> None]

\* ====================================================================
\*                          Structure of a tick
\* ====================================================================

\* a request as update_threads_randomly may draw it
WellFormedDraw(state, res) ==
    \/ state \in {Idle, Waiting} /\ res = None
    \/ state \in {Reading, Writing} /\ res \in DOMAIN resources

\* C19. Tick structure: one update_threads_randomly call on a non-empty pool
\* reconciles every entity exactly once, in strictly increasing index order,
\* one reconcile at a time, and then returns; each request is (Idle, None),
\* (Waiting, None), (Reading, Some(r)) or (Writing, Some(r)) with r in range.
TickStructure ==
    /\ [](pc = "loop" =>
            /\ Cardinality(DOMAIN resources) > 0
            /\ Len(draws) = loop_i
            /\ loop_i <= Cardinality(DOMAIN threads))
    /\ [][/\ (pc = "main" /\ pc' = "loop") => (loop_i' = 0 /\ draws' = << >>)
          /\ (pc = "loop" /\ pc' = "loop") =>
                /\ loop_i \in DOMAIN threads
                /\ loop_i' = loop_i + 1
                /\ last'.op = "set_thread_resource_state"
                /\ last'.index = loop_i
                /\ WellFormedDraw(last'.state, last'.res)
                /\ draws' = Append(draws, [state |-> last'.state, res |-> last'.res])
                /\ \A u \in DOMAIN threads \ {loop_i} : threads'[u] = threads[u]
          /\ (pc = "loop" /\ pc' = "main") =>
                /\ loop_i = Cardinality(DOMAIN threads)
                /\ Len(draws) = Cardinality(DOMAIN threads)
                /\ last'.op = "update_threads_randomly"
                /\ threads' = threads
                /\ resources' = resources
         ]_vars
    /\ (pc = "loop") ~> (pc = "main" /\ last.op = "update_threads_randomly")

\* a tick over all the entities has returned, in which the first entity drew
\* Writing with a resource and the last one Waiting without
TickStructureWitness ==
    /\ pc = "main"
    /\ last.op = "update_threads_randomly"
    /\ Len(draws) = MaxThreads
    /\ Cardinality(DOMAIN threads) = MaxThreads
    /\ draws[1].state = Writing /\ draws[1].res \in DOMAIN resources
    /\ draws[MaxThreads] = [state |-> Waiting, res |-> None]

\* C20. State and hold agree in both directions under ticks: in every state
\* reached by update_threads_randomly calls alone, an entity is Reading or
\* Writing if and only if its resource_in_use is Some(r) with r in range.
StateAndHoldAgree ==
    \A t \in DOMAIN threads :
        threads[t].state \in {Reading, Writing}
            <=> threads[t].resource_in_use \in DOMAIN resources

\* inside a tick, one entity holds a resource as Writing and a later one was
\* just refused it and is Waiting with no resource
StateAndHoldAgreeWitness ==
    /\ last.op = "set_thread_resource_state"
    /\ last.index \in DOMAIN threads
    /\ last.calls = << PoolCall("try_set_writing", last.res, FALSE) >>
    /\ threads[last.index] = [state |-> Waiting, resource_in_use |-> None]
    /\ \E u \in 0..(last.index - 1) :
         threads[u] = [state |-> Writing, resource_in_use |-> last.res]

\* ------------------------------------------------------------------ C21
\* the draws of a whole call: head for the entities 0..i, tail for the rest
DrawsOf(head, i, tail, n) ==
    [k \in 1..n |-> IF k <= i + 1 THEN head[k] ELSE tail[k]]

\* from the pre-call state (ths, rs, psn), all the calls whose draws agree for
\* the entities 0..i leave entity i with one and the same state and held
\* resource, whatever they draw for the entities above i
LaterDrawsIrrelevant(ths, rs, psn) ==
    LET n == Cardinality(DOMAIN ths)
        D == TickDraws(rs)
    IN  \A i \in 0..(n - 1) : \A head \in [1..(i + 1) -> D] :
          Cardinality({ update_threads_randomly(ths, rs, psn,
                            DrawsOf(head, i, tail, n)).threads[i] :
                        tail \in [(i + 2)..n -> D] }) = 1

\* the call has just been made: the state is the pre-call state, either with
\* an empty pool or at the head of the for loop
CallBegins ==
    \/ pc = "main" /\ EmptyPool(resources)
    \/ pc = "loop" /\ loop_i = 0

\* C21: a tick outcome never depends on later draws. From the state in which
\* update_threads_randomly is called (entering the call changes neither the
\* entities nor the pool), two calls whose draws agree for the entities 0..i
\* and differ for entities above i give entity i the same final state and
\* held resource; and each iteration the call makes is the loop step those
\* calls are computed from.
NoLaterDrawDependence ==
    [][ /\ CallBegins => LaterDrawsIrrelevant(threads, resources, poisoned)
        /\ pc = "main" => UNCHANGED <<threads, resources, poisoned>>
        /\ (pc = "loop" /\ loop_i' = loop_i + 1) =>
             ForLoop(threads, resources, poisoned, draws', loop_i, loop_i + 1)
               = [threads |-> threads', resources |-> resources'] ]_vars

\* a tick has returned, and from the state it left two further ticks agree on
\* the draw of entity 0, which takes a resource, and differ on the draw of
\* entity 1: entity 1 ends differently, entity 0 ends the same
NoLaterDrawDependenceWitness ==
    /\ pc = "main"
    /\ last.op = "update_threads_randomly"
    /\ Len(draws) >= 2
    /\ \E d1 \in [1..Cardinality(DOMAIN threads) -> TickDraws(resources)] :
       \E d2 \in [1..Cardinality(DOMAIN threads) -> TickDraws(resources)] :
         LET o1 == update_threads_randomly(threads, resources, poisoned, d1)
             o2 == update_threads_randomly(threads, resources, poisoned, d2)
         IN  /\ d1[1] = d2[1]
             /\ d1[2] # d2[2]
             /\ o1.threads[1] # o2.threads[1]
             /\ o1.threads[0] = o2.threads[0]
             /\ o1.threads[0].resource_in_use # None

\* ------------------------------------------------------------------ C22
\* read_count + write_count summed over the resources with an index in idxs
RECURSIVE SumCounts(_, _)
SumCounts(rs, idxs) ==
    IF idxs = {}
    THEN 0
    ELSE LET idx == CHOOSE x \in idxs : TRUE
         IN  rs[idx].read_count + rs[idx].write_count
               + SumCounts(rs, idxs \ {idx})

\* C22: counters are bounded by the number of entities. In every state reached
\* by set_thread_resource_state and update_threads_randomly calls the sum of
\* read_count + write_count over all resources is at most the number of
\* entities, so no single read_count or write_count exceeds the entity count
\* (and none comes near the u32 range).
CountersBoundedByEntities ==
    /\ SumCounts(resources, DOMAIN resources) <= Cardinality(DOMAIN threads)
    /\ \A r \in DOMAIN resources :
        /\ resources[r].read_count >= 0
        /\ resources[r].read_count <= Cardinality(DOMAIN threads)
        /\ resources[r].write_count >= 0
        /\ resources[r].write_count <= Cardinality(DOMAIN threads)

\* a reconcile was just granted and now every one of at least two entities
\* holds a resource: the sum of the counters equals the number of entities,
\* and one resource is read by two entities
CountersBoundedByEntitiesWitness ==
    /\ last.op = "set_thread_resource_state"
    /\ Len(last.calls) >= 1
    /\ last.calls[Len(last.calls)].ret
    /\ Cardinality(DOMAIN threads) >= 2
    /\ SumCounts(resources, DOMAIN resources) = Cardinality(DOMAIN threads)
    /\ \E r \in DOMAIN resources : resources[r].read_count = 2

====
